---- MODULE Spec2Model ----
(***************************************************************************)
(* FbrCache (src/src/lib.rs): a fixed-capacity key/value cache with        *)
(* frequency-based replacement.  Entries are heap nodes that are linked    *)
(* into the recency list `lru` and into one of the C_MAX frequency         *)
(* `chains`, and are found through `hash`.                                 *)
(*                                                                         *)
(* A node is named by a number.  Heap addresses carry no meaning, so every *)
(* public call ends by renaming the nodes to their position in `lru`       *)
(* (`canon`); within a call the nodes keep their names, so an evicted node *)
(* that is reused is the same node.                                        *)
(*                                                                         *)
(* A panic (linking an already linked node, unwrap of None, arithmetic     *)
(* overflow when the build has overflow checks, as the test profile has)   *)
(* ends the call where it happens and is recorded in `panicked`; nothing   *)
(* runs after it.  In a build without overflow checks (the release         *)
(* profile) usize arithmetic wraps: a total_count below zero stands for    *)
(* the usize 2^64 + total_count, and a run is followed until total_count   *)
(* has wrapped, after which the cache is only cleared.                     *)
(***************************************************************************)
EXTENDS Integers, Sequences, FiniteSets, TLC

\* FbrCache::<u32, String, 3>::with_age_threshold(5, 4) of the tests: the
\* capacity and the const generic C_MAX
TestCapacity == 5
C_MAX == 3
\* the least capacity the requirements allow
MinCapacity == 4
\* with_age_threshold(10, 4) of the smoke test: the capacity
SmokeCapacity == 10
\* the age_threshold parameter the cache is made with
AgingFactor == 1
\* the keys and values the calls are made with
NumKeys == 6
NumVals == 2
\* the number of keys a cache of capacity SmokeCapacity is called with: it
\* stays in its warm-up
WarmKeys == 4

Keys == 1..NumKeys
Values == 1..NumVals
Nodes == 1..SmokeCapacity
NULL == 0
None == 0

VARIABLES capacity, hash, entries, lru, chains, mid_boundary, old_boundary,
          total_count, panicked, overflow_checks

vars == <<capacity, hash, entries, lru, chains, mid_boundary, old_boundary,
          total_count, panicked, overflow_checks>>

\* a > b on usize, for b >= 0 (a below zero stands for 2^64 + a)
usize_gt(a, b) == a < 0 \/ a > b

\* the fields mid, old and age_threshold, set by with_age_threshold
mid(c) == (c.capacity * 3) \div 10
\* old set to two thirds of the capacity
old_at_two_thirds(c) == (c.capacity * 2) \div 3
old(c) == (c.capacity * 3) \div 4
age_threshold(c) == c.capacity * AgingFactor

\* a node that is not allocated
NoEntry == [key |-> 0, value |-> 0, count |-> 0, region |-> "New"]

\* Region, ordered New < Middle < Old
RegionRank(r) == CASE r = "New" -> 0 [] r = "Middle" -> 1 [] r = "Old" -> 2

\* the cache as one value
Self ==
  [capacity |-> capacity, hash |-> hash, entries |-> entries, lru |-> lru, chains |-> chains,
   mid_boundary |-> mid_boundary, old_boundary |-> old_boundary,
   total_count |-> total_count, panicked |-> panicked]

\* FbrCache::with_age_threshold
NewCache(cap) ==
  [capacity |-> cap, hash |-> [k \in Keys |-> NULL], entries |-> [n \in Nodes |-> NoEntry],
   lru |-> <<>>, chains |-> [i \in 1..C_MAX |-> <<>>],
   mid_boundary |-> NULL, old_boundary |-> NULL,
   total_count |-> 0, panicked |-> FALSE]

---------------------------------------------------------------------------
\* intrusive LinkedList primitives on sequences of nodes (front first)

InList(s, n) == \E i \in 1..Len(s) : s[i] = n
IndexOf(s, n) == CHOOSE i \in 1..Len(s) : s[i] = n
list_remove(s, n) == SelectSeq(s, LAMBDA x : x # n)
list_back(s) == IF Len(s) = 0 THEN NULL ELSE s[Len(s)]
peek_next(s, n) == IF IndexOf(s, n) = Len(s) THEN NULL ELSE s[IndexOf(s, n) + 1]
peek_prev(s, n) == IF IndexOf(s, n) = 1 THEN NULL ELSE s[IndexOf(s, n) - 1]

\* the chain link of node n is linked
ChainLinked(chs, n) == \E i \in 1..C_MAX : InList(chs[i], n)

\* FbrCache::len
len(c) == Cardinality({k \in Keys : c.hash[k] # NULL})

---------------------------------------------------------------------------
\* chains[count].push_front(cde): panics when the chain link is linked
chain_push_front(c, count, n) ==
  IF ChainLinked(c.chains, n)
    THEN [c EXCEPT !.panicked = TRUE]
    ELSE [c EXCEPT !.chains[count + 1] = <<n>> \o @]

\* switch_chain
switch_chain(c, old_count, new_count, n) ==
  LET c1 == IF old_count < C_MAX
              THEN [c EXCEPT !.chains[old_count + 1] = list_remove(@, n)]
              ELSE c
  IN IF new_count < C_MAX THEN chain_push_front(c1, new_count, n) ELSE c1

\* move_boundaries: one boundary (which = "mid" or "old")
move_boundary(c, which, length) ==
  LET b == IF which = "mid" THEN c.mid_boundary ELSE c.old_boundary
      start == IF which = "mid" THEN mid(c) ELSE old(c)
      reg == IF which = "mid" THEN "Middle" ELSE "Old"
      ptr == IF b # NULL THEN peek_prev(c.lru, b)
             ELSE IF length = start + 1 THEN list_back(c.lru) ELSE b
      moved == b # NULL \/ length = start + 1
  IN IF ~moved THEN c
     ELSE IF ptr = NULL THEN [c EXCEPT !.panicked = TRUE]
     ELSE IF which = "mid"
       THEN [c EXCEPT !.entries[ptr].region = reg, !.mid_boundary = ptr]
       ELSE [c EXCEPT !.entries[ptr].region = reg, !.old_boundary = ptr]

\* move_boundaries that moves mid_boundary only for an entry from Old
move_boundaries_from_old(c, from_region, length) ==
  LET c1 == IF RegionRank(from_region) > RegionRank("Middle")
              THEN move_boundary(c, "mid", length) ELSE c
  IN IF c1.panicked THEN c1
     ELSE IF RegionRank(from_region) > RegionRank("Middle")
       THEN move_boundary(c1, "old", length) ELSE c1

\* move_boundaries
move_boundaries(c, from_region, length) ==
  LET c1 == IF RegionRank(from_region) > RegionRank("New")
              THEN move_boundary(c, "mid", length) ELSE c
  IN IF c1.panicked THEN c1
     ELSE IF RegionRank(from_region) > RegionRank("Middle")
       THEN move_boundary(c1, "old", length) ELSE c1

\* unlink cde from lru and leave the boundaries as they are
lru_unlink_keeps_boundaries(c, cde) == [c EXCEPT !.lru = list_remove(@, cde)]

\* unlink cde from lru, advancing a boundary that references it
lru_unlink(c, cde) ==
  LET next == peek_next(c.lru, cde)
  IN [c EXCEPT
        !.mid_boundary = IF @ = cde THEN next ELSE @,
        !.old_boundary = IF c.mid_boundary # cde /\ @ = cde THEN next ELSE @,
        !.lru = list_remove(@, cde)]

---------------------------------------------------------------------------
\* the hit with an access that counts in region New too
hit_counts_in_new(c, cde) ==
  LET region == c.entries[cde].region
      old_count == c.entries[cde].count
      new_count == old_count + 1
      c1 == [c EXCEPT !.entries[cde].count = new_count,
                      !.entries[cde].region = "New"]
      c2 == switch_chain(c1, old_count, new_count, cde)
      c3 == lru_unlink(c2, cde)
      c4 == [c3 EXCEPT !.lru = <<cde>> \o @]
      c5 == move_boundaries(c4, region, len(c4))
  IN IF c2.panicked THEN c2
     ELSE IF c5.panicked THEN c5
     ELSE [c5 EXCEPT !.total_count = @ + (new_count - old_count)]

\* FbrCache::get, the hit: access, switch_chain, move to the front of lru,
\* move_boundaries and the addition to total_count (lines 216-241)
hit(c, cde) ==
  LET region == c.entries[cde].region
      old_count == c.entries[cde].count
      new_count == IF region # "New" THEN old_count + 1 ELSE old_count
      c1 == [c EXCEPT !.entries[cde].count = new_count,
                      !.entries[cde].region = "New"]
      c2 == switch_chain(c1, old_count, new_count, cde)
      c3 == lru_unlink(c2, cde)
      c4 == [c3 EXCEPT !.lru = <<cde>> \o @]
      c5 == move_boundaries(c4, region, len(c4))
  IN IF c2.panicked THEN c2
     ELSE IF c5.panicked THEN c5
     ELSE [c5 EXCEPT !.total_count = @ + (new_count - old_count)]

\* FbrEntry::age and the loop body of the periodic aging, for the entries of
\* lru from position i on; the subtraction panics when it would go below 0
RECURSIVE age_from(_, _)
age_from(c, i) ==
  IF i > Len(c.lru) \/ c.panicked THEN c
  ELSE LET ptr == c.lru[i]
           old_count == c.entries[ptr].count
           new_count == old_count \div 2
           c1 == [c EXCEPT !.entries[ptr].count = new_count]
       IN IF overflow_checks /\ old_count - new_count > c1.total_count
            THEN [c1 EXCEPT !.panicked = TRUE]
            ELSE age_from(
                   switch_chain(
                     [c1 EXCEPT !.total_count = @ - (old_count - new_count)],
                     old_count, new_count, ptr),
                   i + 1)

\* the periodic aging pass
aging(c) == age_from(c, 1)

\* the test with >= for >
must_age_at_threshold(c) == c.total_count >= age_threshold(c)

\* the test that starts the periodic aging
must_age(c) == usize_gt(c.total_count, age_threshold(c))

\* FbrCache::get: the cache after the call
get(c, key) ==
  IF c.hash[key] = NULL THEN c
  ELSE LET c1 == hit(c, c.hash[key])
       IN IF c1.panicked THEN c1
          ELSE IF must_age(c1) THEN aging(c1) ELSE c1

\* FbrCache::get: the value returned (no step of get writes a value)
get_value(c, key) ==
  IF c.hash[key] = NULL THEN None ELSE c.entries[c.hash[key]].value

\* evict_scan without the test of the region
RECURSIVE evict_scan_any_region(_, _)
evict_scan_any_region(c, i) ==
  IF i > C_MAX THEN 0
  ELSE IF list_back(c.chains[i]) # NULL THEN i
  ELSE evict_scan_any_region(c, i + 1)

\* FbrCache::evict, the scan of the chains: the first chain (from i on) whose
\* back is in region Old, or 0
RECURSIVE evict_scan(_, _)
evict_scan(c, i) ==
  IF i > C_MAX THEN 0
  ELSE IF list_back(c.chains[i]) # NULL
          /\ c.entries[list_back(c.chains[i])].region = "Old"
    THEN i
    ELSE evict_scan(c, i + 1)

\* FbrCache::evict: the node taken
evict_victim(c) ==
  IF evict_scan(c, 1) # 0 THEN list_back(c.chains[evict_scan(c, 1)])
  ELSE list_back(c.lru)

\* evict that leaves the key of the victim in hash
evict_keeps_key(c) ==
  LET found == evict_scan(c, 1)
      cde == evict_victim(c)
      c1 == IF found # 0
              THEN [c EXCEPT !.chains[found] = list_remove(@, cde)]
              ELSE c
  IN IF cde = NULL THEN [c EXCEPT !.panicked = TRUE]
     ELSE lru_unlink(c1, cde)

\* FbrCache::evict: the cache after the call
evict(c) ==
  LET found == evict_scan(c, 1)
      cde == evict_victim(c)
      c1 == IF found # 0
              THEN [c EXCEPT !.chains[found] = list_remove(@, cde)]
              ELSE c
      c2 == lru_unlink(c1, cde)
  IN IF cde = NULL THEN [c EXCEPT !.panicked = TRUE]
     ELSE [c2 EXCEPT !.hash[c.entries[cde].key] = NULL]

\* UnsafeRef::from_box(Box::new(..)): a node that is not in use
fresh_node(c) == CHOOSE n \in Nodes : c.entries[n] = NoEntry

\* FbrEntry::new / FbrEntry::reuse followed by the prio bump
new_entry(key, value, prio) ==
  [key |-> key, value |-> value, count |-> IF prio THEN 1 ELSE 0,
   region |-> "New"]

\* insert that does not enter the key into hash
insert_without_index(c, key, value, prio) ==
  LET full == len(c) >= c.capacity
      c0 == IF full THEN evict(c) ELSE c
      entry == IF full THEN evict_victim(c) ELSE fresh_node(c)
      c1 == [c0 EXCEPT !.entries[entry] = new_entry(key, value, prio)]
      c3 == [c1 EXCEPT !.lru = <<entry>> \o @]
      c4 == move_boundaries(c3, "Old", len(c3))
  IN IF c0.panicked THEN c0
     ELSE IF c4.panicked THEN c4
     ELSE chain_push_front(c4, c4.entries[entry].count, entry)

\* FbrCache::insert
insert(c, key, value, prio) ==
  LET full == len(c) >= c.capacity
      c0 == IF full THEN evict(c) ELSE c
      entry == IF full THEN evict_victim(c) ELSE fresh_node(c)
      c1 == [c0 EXCEPT !.entries[entry] = new_entry(key, value, prio)]
      c2 == [c1 EXCEPT !.hash[key] = entry]
      c3 == [c2 EXCEPT !.lru = <<entry>> \o @]
      c4 == move_boundaries(c3, "Old", len(c3))
  IN IF c0.panicked THEN c0
     ELSE IF c4.panicked THEN c4
     ELSE chain_push_front(c4, c4.entries[entry].count, entry)

\* a reuse that overwrites without releasing what the node held
reuse_forgets(c) == <<>>

\* FbrEntry::reuse in insert: the entries whose key and value the
\* assignments of reuse release, in a cache that is full
reuse_drops(c) ==
  IF len(c) >= c.capacity /\ evict_victim(c) # NULL
    THEN <<c.entries[evict_victim(c)]>>
    ELSE <<>>

\* the entries released by put / put_prio: those of reuse when the key is
\* absent (an argument that is not installed is not counted)
put_drops(c, key) ==
  IF get_value(c, key) # None THEN <<>> ELSE reuse_drops(get(c, key))

\* FbrCache::clear, the drain of hash: how often into_box frees node n
clear_drops(c) == [n \in Nodes |-> Cardinality({k \in Keys : c.hash[k] = n})]

\* put that writes the value of a key that is cached
put_overwrite(c, key, value) ==
  IF get_value(c, key) # None
    THEN [get(c, key) EXCEPT !.entries[c.hash[key]].value = value]
    ELSE insert(get(c, key), key, value, FALSE)

\* FbrCache::put
put(c, key, value) ==
  IF get_value(c, key) # None THEN get(c, key)
  ELSE insert(get(c, key), key, value, FALSE)

\* put_prio that bumps the count of a key that is cached
put_prio_bumps(c, key, value) ==
  IF get_value(c, key) # None
    THEN [get(c, key) EXCEPT !.entries[c.hash[key]].count = @ + 1]
    ELSE insert(get(c, key), key, value, TRUE)

\* FbrCache::put_prio
put_prio(c, key, value) ==
  IF get_value(c, key) # None THEN get(c, key)
  ELSE insert(get(c, key), key, value, TRUE)

\* clear that leaves total_count as it is
clear_keeps_total_count(c) ==
  [c EXCEPT !.lru = <<>>, !.chains = [i \in 1..C_MAX |-> <<>>],
            !.mid_boundary = NULL, !.old_boundary = NULL,
            !.hash = [k \in Keys |-> NULL],
            !.entries = [n \in Nodes |-> NoEntry]]

\* FbrCache::clear
clear(c) ==
  [c EXCEPT !.lru = <<>>, !.chains = [i \in 1..C_MAX |-> <<>>],
            !.mid_boundary = NULL, !.old_boundary = NULL, !.total_count = 0,
            !.hash = [k \in Keys |-> NULL],
            !.entries = [n \in Nodes |-> NoEntry]]

---------------------------------------------------------------------------
\* the key held by the entry at position i of lru
key_at(c, i) == c.entries[c.lru[i]].key

\* Nodes are heap addresses and keys are only hashed and compared (K: Hash +
\* Eq), so a cache is kept up to a renaming of both.  key_names(c) renames a
\* key held by an entry of lru to the position of that entry and lets the
\* other keys follow in their order (no renaming when two entries hold the
\* same key).
key_names(c) ==
  LET n == Len(c.lru)
      held == {key_at(c, i) : i \in 1..n}
  IN IF Cardinality(held) # n THEN [k \in Keys |-> k]
     ELSE [k \in Keys |->
             IF k \in held THEN CHOOSE i \in 1..n : key_at(c, i) = k
             ELSE n + Cardinality({x \in Keys \ held : x <= k})]

\* the inverse of a renaming of the keys
key_inverse(kn) == [m \in Keys |-> CHOOSE k \in Keys : kn[k] = m]

\* the nodes renamed to their position in lru
node_names(c) ==
  [n \in Nodes \cup {NULL} |->
     IF InList(c.lru, n) THEN IndexOf(c.lru, n) ELSE NULL]

\* c with its nodes renamed by name and its keys by kn (key_of its inverse)
renamed(c, name, kn, key_of) ==
  [c EXCEPT
     !.hash = [m \in Keys |-> name[c.hash[key_of[m]]]],
     !.entries = [i \in Nodes |->
                    IF i <= Len(c.lru)
                      THEN [c.entries[c.lru[i]] EXCEPT !.key = kn[@]]
                      ELSE NoEntry],
     !.lru = [i \in 1..Len(c.lru) |-> i],
     !.chains = [j \in 1..C_MAX |->
                   [i \in 1..Len(c.chains[j]) |-> name[c.chains[j][i]]]],
     !.mid_boundary = name[c.mid_boundary],
     !.old_boundary = name[c.old_boundary]]

\* the nodes renamed to their position in lru, the keys by key_names
canon(c) ==
  renamed(c, node_names(c), key_names(c), key_inverse(key_names(c)))

\* the variables after a call that leaves the cache as c
Becomes(c) ==
  \E d \in {canon(c)} :
     /\ capacity' = d.capacity
     /\ hash' = d.hash
     /\ entries' = d.entries
     /\ lru' = d.lru
     /\ chains' = d.chains
     /\ mid_boundary' = d.mid_boundary
     /\ old_boundary' = d.old_boundary
     /\ total_count' = d.total_count
     /\ panicked' = d.panicked
     /\ overflow_checks' = overflow_checks

---------------------------------------------------------------------------
\* What the claims speak of

\* the nodes of a list
ListSet(s) == {s[i] : i \in 1..Len(s)}

\* key k is cached in c: a live entry holds it
Cached(c, k) == \E i \in 1..Len(c.lru) : key_at(c, i) = k
CachedKeys(c) == {k \in Keys : Cached(c, k)}

\* the keys of c from the front of lru to its back
KeyOrder(c) == [i \in 1..Len(c.lru) |-> key_at(c, i)]

\* the entry of c that holds the cached key k
EntryOf(c, k) == c.entries[CHOOSE n \in ListSet(c.lru) : c.entries[n].key = k]

\* the position (front = 0) in lru of the entry that holds the cached key k
PositionOf(c, k) == (CHOOSE i \in 1..Len(c.lru) : key_at(c, i) = k) - 1

\* the cache is full and k is not cached: a put of k evicts
Evicts(k) == ~panicked /\ ~Cached(Self, k) /\ len(Self) = capacity

\* the keys a call that leaves d removed
Removed(d) == CachedKeys(Self) \ CachedKeys(d)

\* the results of put and put_prio of key k with value v
Puts(k, v) == {put(Self, k, v), put_prio(Self, k, v)}

\* C1: get(k) returns a value iff k is cached; a put of an absent key makes
\* get(k) return the value put; no call changes the value get returns for a
\* key that stays cached (a put of a cached key does not replace it); and a
\* key that is evicted no longer resolves.
C1_GetReturnsInstalledValue ==
  ~panicked =>
    /\ \A k \in Keys : (get_value(Self, k) # None) <=> Cached(Self, k)
    /\ \A k \in Keys, v \in Values : \A d \in Puts(k, v) :
         /\ ~Cached(Self, k) => get_value(d, k) = v
         /\ \A k2 \in Keys :
              /\ (Cached(Self, k2) /\ Cached(d, k2))
                   => get_value(d, k2) = get_value(Self, k2)
              /\ (k2 # k /\ ~Cached(d, k2)) => get_value(d, k2) = None
    /\ \A k \in Keys : \A d \in {get(Self, k)} :
         \A k2 \in Keys : get_value(d, k2) = get_value(Self, k2)

\* a full cache where the put of an absent key reuses the node of an entry
\* with another value, and a cached key whose value a put would not replace
C1_Witness ==
  /\ ~panicked
  /\ len(Self) = capacity
  /\ \E k \in Keys, v \in Values :
       /\ ~Cached(Self, k)
       /\ ~put(Self, k, v).panicked
       /\ entries[evict_victim(Self)].value # v
  /\ \E k \in Keys : Cached(Self, k) /\ get_value(Self, k) = NumVals

\* C2: a put or put_prio of an absent key on a full cache removes only a key
\* whose entry is in region Old, by the scan of the chains or by the fallback
C2_EvictsOnlyOld ==
  \A k \in Keys : Evicts(k) =>
    \A d \in Puts(k, 1) : \A k2 \in Removed(d) :
      EntryOf(Self, k2).region = "Old"

\* a full cache where no chain ends in region Old: evict falls back to the
\* back of lru
C2_Witness ==
  /\ ~panicked
  /\ len(Self) = capacity
  /\ evict_scan(Self, 1) = 0
  /\ \E k \in Keys : Removed(put(Self, k, 1)) # {}

\* the keys of c whose entry is in region Old
OldKeys(c) == {k \in CachedKeys(c) : EntryOf(c, k).region = "Old"}

\* C3: when a put evicts and some entry in region Old has a count below
\* C_MAX, the key removed has the least count of the entries in region Old
C3_EvictsLeastUsedOld ==
  \A k \in Keys : Evicts(k) =>
    \A d \in Puts(k, 1) :
      (\E k1 \in OldKeys(Self) : EntryOf(Self, k1).count < C_MAX) =>
        \A k2 \in Removed(d) : \A k3 \in OldKeys(Self) :
          EntryOf(Self, k2).count <= EntryOf(Self, k3).count

\* C4: when the scan of the chains finds the victim, no entry in region Old
\* with the count of the victim lies behind it in lru
C4_TiesBreakByLru ==
  \A k \in Keys : (Evicts(k) /\ evict_scan(Self, 1) # 0) =>
    \A d \in Puts(k, 1) :
      \A k2 \in Removed(d) : \A k3 \in OldKeys(Self) :
        EntryOf(Self, k3).count = EntryOf(Self, k2).count
          => PositionOf(Self, k3) <= PositionOf(Self, k2)

\* the results of the calls that hit the cached key k
Hits(k) == {get(Self, k), put(Self, k, 1), put_prio(Self, k, 1)}

\* what a hit of the cached key k adds to its count
Increment(k) == IF EntryOf(Self, k).region # "New" THEN 1 ELSE 0

\* a hit of the cached key k is followed by the aging pass (a total_count
\* that has wrapped is above every threshold)
Ages(k) ==
  \/ total_count + Increment(k) > capacity * AgingFactor
  \/ total_count + Increment(k) < 0

\* the keys of a sequence without key k
Without(s, k) == SelectSeq(s, LAMBDA x : x # k)

\* C5: a hit adds 1 to the count of an entry of region Middle or Old and
\* nothing to one of region New (the count is then halved if the call ages);
\* the entry ends at the front of lru in region New, and the order of the
\* other entries stays
C5_CountingRule ==
  ~panicked =>
    \A k \in CachedKeys(Self) :
      /\ EntryOf(hit(Self, hash[k]), k).count
           = EntryOf(Self, k).count + Increment(k)
      /\ \A d \in Hits(k) :
           /\ KeyOrder(d)[1] = k
           /\ EntryOf(d, k).region = "New"
           /\ EntryOf(d, k).count =
                IF Ages(k) THEN (EntryOf(Self, k).count + Increment(k)) \div 2
                ELSE EntryOf(Self, k).count + Increment(k)
           /\ Without(KeyOrder(d), k) = Without(KeyOrder(Self), k)

\* an entry of region New behind the front, with a count, is hit
C5_Witness ==
  /\ ~panicked
  /\ \E k \in CachedKeys(Self) :
       /\ EntryOf(Self, k).region = "New"
       /\ EntryOf(Self, k).count > 0
       /\ PositionOf(Self, k) > 0
       /\ ~Ages(k)
  /\ \E k \in CachedKeys(Self) : EntryOf(Self, k).region = "Middle"

\* C6: put and put_prio of a cached key leave the cache as get of the key
\* does, and no key is inserted or removed
C6_PutOfCachedKeyIsGet ==
  ~panicked =>
    \A k \in CachedKeys(Self), v \in Values : \A g \in {get(Self, k)} :
      /\ put(Self, k, v) = g
      /\ put_prio(Self, k, v) = g
      /\ CachedKeys(g) = CachedKeys(Self)

\* a full cache whose key in region Old holds another value than the one
\* put, and whose hit runs the aging pass
C6_Witness ==
  /\ ~panicked
  /\ len(Self) = capacity
  /\ \E k \in CachedKeys(Self) :
       /\ EntryOf(Self, k).region = "Old"
       /\ EntryOf(Self, k).value # NumVals
       /\ Ages(k)

\* C7: put / put_prio of an absent key leaves it cached at the front of lru
\* in region New with count 0 / 1; below capacity len grows by one and no
\* key is removed, at capacity one key is removed and len stays; a call
\* that hits or misses removes no key
C7_PutInstallsOneEntry ==
  ~panicked =>
    /\ \A k \in Keys \ CachedKeys(Self) : \A prio \in BOOLEAN :
         \A d \in {IF prio THEN put_prio(Self, k, 1) ELSE put(Self, k, 1)} :
           /\ Cached(d, k)
           /\ KeyOrder(d)[1] = k
           /\ EntryOf(d, k).region = "New"
           /\ EntryOf(d, k).count = (IF prio THEN 1 ELSE 0)
           /\ CachedKeys(d) \subseteq CachedKeys(Self) \cup {k}
           /\ len(d) = Cardinality(CachedKeys(d))
           /\ len(Self) < capacity =>
                len(d) = len(Self) + 1 /\ Removed(d) = {}
           /\ len(Self) = capacity =>
                len(d) = capacity /\ Cardinality(Removed(d)) = 1
    /\ \A k \in Keys : Removed(get(Self, k)) = {}
    /\ \A k \in CachedKeys(Self) : \A d \in Hits(k) : Removed(d) = {}

\* a full cache into which an absent key is put
C7_Witness ==
  /\ ~panicked
  /\ len(Self) = capacity
  /\ \E k \in Keys \ CachedKeys(Self) : ~put(Self, k, 1).panicked

\* C8: the region of an entry is given by its position p in lru: New below
\* capacity*3/10, Middle below capacity*3/4, Old from there on
C8_RegionByPosition ==
  \A i \in 1..Len(lru) :
    entries[lru[i]].region =
      IF i - 1 < (capacity * 3) \div 10 THEN "New"
      ELSE IF i - 1 < (capacity * 3) \div 4 THEN "Middle"
      ELSE "Old"

\* a full cache after hits, and a warm-up with two entries in region New
C8_Witness ==
  /\ ~panicked
  /\ total_count > 0
  /\ \/ len(Self) = capacity
     \/ /\ Len(lru) > 3
        /\ entries[lru[2]].region = "New"

\* the sum over the entries of lru from position i on of what halving takes
\* off the count
RECURSIVE HalvedOff(_, _)
HalvedOff(c, i) ==
  IF i > Len(c.lru) THEN 0
  ELSE LET count == c.entries[c.lru[i]].count
       IN (count - count \div 2) + HalvedOff(c, i + 1)

\* the cache d is the cache h after a complete aging pass
Aged(h, d) ==
  /\ \A n \in ListSet(h.lru) :
       /\ d.entries[n].count = h.entries[n].count \div 2
       /\ d.entries[n].region = h.entries[n].region
       /\ d.entries[n].key = h.entries[n].key
       /\ d.entries[n].value = h.entries[n].value
  /\ d.total_count = h.total_count - HalvedOff(h, 1)
  /\ d.lru = h.lru
  /\ d.hash = h.hash
  /\ d.mid_boundary = h.mid_boundary
  /\ d.old_boundary = h.old_boundary

\* C9: the aging pass halves the count of every entry, takes the sum of
\* what it halved off from total_count and leaves lru, the regions, the
\* boundaries, the keys and the values as they are
C9_AgingPassFrame ==
  ~panicked =>
    \A k \in CachedKeys(Self) : \A h \in {hit(Self, hash[k])} :
      must_age(h) => Aged(h, aging(h))

\* the same of the passes that run to their end
C9_CompletePassFrame ==
  ~panicked =>
    \A k \in CachedKeys(Self) : \A h \in {hit(Self, hash[k])} :
      \A d \in {aging(h)} : must_age(h) /\ ~d.panicked => Aged(h, d)

RECURSIVE CountsFrom(_, _)
CountsFrom(c, i) ==
  IF i > Len(c.lru) THEN 0
  ELSE c.entries[c.lru[i]].count + CountsFrom(c, i + 1)

\* C11: total_count is the sum of the counts of the cached entries, so a
\* hit runs the aging pass iff that sum, after the hit, is above
\* capacity * aging_factor
C11_AgingByAverageCount ==
  ~panicked =>
    /\ total_count = CountsFrom(Self, 1)
    /\ \A k \in CachedKeys(Self) : \A h \in {hit(Self, hash[k])} :
         must_age(h) <=> CountsFrom(h, 1) > capacity * AgingFactor

\* C12: clear leaves the cache as with_age_threshold makes it with the same
\* parameters: no key, lru and the chains empty, no boundary, total_count 0;
\* a second clear changes nothing
C12_ClearGivesNewCache ==
  ~panicked =>
    \A d \in {clear(Self)} :
      /\ d = NewCache(capacity)
      /\ len(d) = 0
      /\ d.lru = <<>>
      /\ \A i \in 1..C_MAX : d.chains[i] = <<>>
      /\ d.mid_boundary = NULL /\ d.old_boundary = NULL
      /\ d.total_count = 0
      /\ clear(d) = d
      /\ \A k \in Keys :
           /\ get(d, k) = get(NewCache(capacity), k)
           /\ put(d, k, 1) = put(NewCache(capacity), k, 1)
           /\ put_prio(d, k, 1) = put_prio(NewCache(capacity), k, 1)

\* a full cache with counts, both boundaries and all chains in use is cleared
C12_Witness ==
  /\ ~panicked
  /\ len(Self) = capacity
  /\ total_count > 0
  /\ mid_boundary # NULL /\ old_boundary # NULL
  /\ \E i \in 1..C_MAX : chains[i] # <<>>

\* C13: a call that installs a value releases as many installed values as
\* it installs less the growth of len; a value it releases is the one of
\* the key it removes, released once and no longer cached; a hit and a miss
\* release nothing; clear frees every cached entry once and nothing else
C13_ValuesReleasedOnce ==
  ~panicked =>
    /\ \A k \in Keys \ CachedKeys(Self) : \A r \in {put_drops(Self, k)} :
         \A d \in Puts(k, 1) :
           /\ Len(r) = 1 - (len(d) - len(Self))
           /\ \A i \in 1..Len(r) :
                /\ Removed(d) = {r[i].key}
                /\ ~Cached(d, r[i].key)
                /\ r[i].value = get_value(Self, r[i].key)
    /\ \A k \in CachedKeys(Self) :
         /\ put_drops(Self, k) = <<>>
         /\ \A d \in Hits(k) : len(d) = len(Self)
    /\ \A n \in Nodes :
         clear_drops(Self)[n] = IF n \in ListSet(lru) THEN 1 ELSE 0
    /\ len(Self) - len(clear(Self)) = Cardinality(ListSet(lru))

\* an absent key is put into the full cache of capacity 5: the value of the
\* evicted key is released
C13_Witness ==
  /\ ~panicked
  /\ capacity = TestCapacity
  /\ len(Self) = capacity
  /\ \E k \in Keys \ CachedKeys(Self) :
       /\ Len(put_drops(Self, k)) = 1
       /\ ~put(Self, k, 1).panicked

\* hash and lru of cache c hold the same entries: as many, at most capacity,
\* every entry of lru under its own key, no key and no node twice
HashLruAgree(c) ==
  /\ len(c) = Len(c.lru)
  /\ Len(c.lru) <= c.capacity
  /\ \A i \in 1..Len(c.lru) : c.hash[key_at(c, i)] = c.lru[i]
  /\ \A i, j \in 1..Len(c.lru) :
       i # j => key_at(c, i) # key_at(c, j) /\ c.lru[i] # c.lru[j]
  /\ \A k \in Keys : c.hash[k] # NULL => InList(c.lru, c.hash[k])

\* C14: after every public call hash and lru hold the same entries
C14_HashAndLruAgree ==
  /\ HashLruAgree(Self)
  /\ ~panicked =>
       /\ \A k \in Keys : HashLruAgree(get(Self, k))
       /\ \A k \in Keys : \A d \in Puts(k, 1) : HashLruAgree(d)
       /\ HashLruAgree(clear(Self))

\* a full cache whose eviction falls back to the back of lru
C14_Witness ==
  /\ ~panicked
  /\ len(Self) = capacity
  /\ evict_scan(Self, 1) = 0
  /\ \E k \in Keys \ CachedKeys(Self) : ~put(Self, k, 1).panicked

\* the number of entries of lru with region r
InRegion(r) == Cardinality({i \in 1..Len(lru) : entries[lru[i]].region = r})

\* C15 as stated: the full cache of capacity 4 has at most one entry in
\* region Middle and at most one in region Old
C15_OneMiddleOneOld ==
  capacity = MinCapacity /\ len(Self) = capacity =>
    InRegion("Middle") <= 1 /\ InRegion("Old") <= 1

\* C15: the full cache of capacity 4 has one entry in region New, two in
\* region Middle (positions 1 and 2, mid = 1 and old = 3) and one in
\* region Old
C15_TwoMiddleOneOld ==
  capacity = MinCapacity /\ len(Self) = capacity =>
    /\ InRegion("New") = 1
    /\ InRegion("Middle") = 2
    /\ InRegion("Old") = 1

\* the cache of capacity 4 is full after hits
C15_Witness ==
  /\ ~panicked
  /\ capacity = MinCapacity
  /\ len(Self) = capacity
  /\ total_count > 0
  /\ InRegion("Middle") = 2

\* C16: when evict falls back to the back of lru, the entry there has a
\* count of at least C_MAX and is in no chain; no insertion pushes a node
\* that is still in a chain (the push would abort), and the node of the
\* evicted entry is in no chain but the one of the count it is given
C16_FallbackVictimUnlinked ==
  ~panicked /\ len(Self) = capacity =>
    /\ evict_scan(Self, 1) = 0 =>
         /\ entries[list_back(lru)].count >= C_MAX
         /\ ~ChainLinked(chains, list_back(lru))
    /\ \A k \in Keys \ CachedKeys(Self) : \A prio \in BOOLEAN :
         \A d \in {IF prio THEN put_prio(Self, k, 1) ELSE put(Self, k, 1)} :
           /\ ~d.panicked
           /\ \A i \in 1..C_MAX :
                InList(d.chains[i], d.hash[k]) => i = (IF prio THEN 2 ELSE 1)

\* an aging pass over lru from position i on, begun with total_count total,
\* takes more off than is left
RECURSIVE Underflows(_, _, _)
Underflows(c, i, total) ==
  IF i > Len(c.lru) THEN FALSE
  ELSE LET count == c.entries[c.lru[i]].count
           delta == count - count \div 2
       IN delta > total \/ Underflows(c, i + 1, total - delta)

\* C17: total_count is never below zero: no subtraction of an aging pass
\* takes more off total_count than it holds
C17_NoUnderflow ==
  /\ total_count >= 0
  /\ ~panicked =>
       \A k \in CachedKeys(Self) : \A h \in {hit(Self, hash[k])} :
         must_age(h) => ~Underflows(h, 1, h.total_count)

\* how often node n occurs in chain i of cache c
TimesIn(c, i, n) == Cardinality({j \in 1..Len(c.chains[i]) : c.chains[i][j] = n})

\* in cache c every entry of lru with a count below C_MAX is once in the
\* chain of its count and in no other, every other entry is in no chain,
\* and the chains hold entries of lru only
ChainsHoldCounts(c) ==
  /\ \A n \in ListSet(c.lru) : \A i \in 1..C_MAX :
       TimesIn(c, i, n) = IF c.entries[n].count = i - 1 THEN 1 ELSE 0
  /\ \A i \in 1..C_MAX : \A j \in 1..Len(c.chains[i]) :
       InList(c.lru, c.chains[i][j])

\* C18: after every public call the chains hold the cached entries by
\* their count
C18_ChainsHoldCounts ==
  ~panicked =>
    /\ ChainsHoldCounts(Self)
    /\ \A k \in Keys : ChainsHoldCounts(get(Self, k))
    /\ \A k \in Keys : \A d \in Puts(k, 1) : ChainsHoldCounts(d)
    /\ ChainsHoldCounts(clear(Self))

\* the same of the calls that return
C18_ReturnedCallsHoldCounts ==
  ~panicked =>
    /\ ChainsHoldCounts(Self)
    /\ \A k \in Keys : \A d \in {get(Self, k)} :
         ~d.panicked => ChainsHoldCounts(d)
    /\ \A k \in Keys : \A d \in Puts(k, 1) :
         ~d.panicked => ChainsHoldCounts(d)
    /\ ChainsHoldCounts(clear(Self))

\* every chain of cache c lists its entries in the order lru has them
ChainsInLruOrder(c) ==
  \A i \in 1..C_MAX : \A a, b \in 1..Len(c.chains[i]) :
    /\ InList(c.lru, c.chains[i][a])
    /\ a < b => IndexOf(c.lru, c.chains[i][a]) < IndexOf(c.lru, c.chains[i][b])

\* C19: after every public call each chain is in lru order, front to back
C19_ChainsInLruOrder ==
  ~panicked =>
    /\ ChainsInLruOrder(Self)
    /\ \A k \in Keys : ChainsInLruOrder(get(Self, k))
    /\ \A k \in Keys : \A d \in Puts(k, 1) : ChainsInLruOrder(d)
    /\ ChainsInLruOrder(clear(Self))

\* boundary b of cache c is present iff lru has an entry at position start
\* (front = 0), and is that entry
BoundaryAt(c, b, start) ==
  /\ b # NULL <=> len(c) > start
  /\ b # NULL => Len(c.lru) > start /\ c.lru[start + 1] = b

\* both boundaries of cache c are at their positions
BoundariesAtPositions(c) ==
  /\ BoundaryAt(c, c.mid_boundary, (c.capacity * 3) \div 10)
  /\ BoundaryAt(c, c.old_boundary, (c.capacity * 3) \div 4)

\* C20: after every public call mid_boundary is present iff len > mid_size
\* and is the entry at position mid_size, and old_boundary likewise with
\* old_start
C20_BoundariesAtPositions ==
  /\ BoundariesAtPositions(Self)
  /\ ~panicked =>
       /\ \A k \in Keys : BoundariesAtPositions(get(Self, k))
       /\ \A k \in Keys : \A d \in Puts(k, 1) : BoundariesAtPositions(d)
       /\ BoundariesAtPositions(clear(Self))

\* old_boundary is the last entry of the full cache: a hit of it and an
\* eviction remove the boundary entry itself
C20_Witness ==
  /\ ~panicked
  /\ len(Self) = capacity
  /\ old_boundary = list_back(lru)
  /\ \E k \in CachedKeys(Self) :
       hash[k] = old_boundary /\ ~get(Self, k).panicked
  /\ \E k \in Keys \ CachedKeys(Self) :
       /\ evict_victim(Self) = old_boundary
       /\ ~put(Self, k, 1).panicked

\* mid_boundary is the last entry of a cache in its warm-up, and is hit
C20_WitnessWarmUp ==
  /\ ~panicked
  /\ mid_boundary # NULL
  /\ mid_boundary = list_back(lru)
  /\ \E k \in CachedKeys(Self) : hash[k] = mid_boundary

\* total_count of cache c, as a usize, is at most capacity * aging_factor
AtRest(c) == ~usize_gt(c.total_count, c.capacity * AgingFactor)

\* C21: after every public call total_count is at most capacity *
\* aging_factor: the pass a hit runs when it pushes total_count above that
\* brings it back in the same call
C21_TotalCountAtRest ==
  /\ AtRest(Self)
  /\ ~panicked =>
       /\ \A k \in Keys : AtRest(get(Self, k))
       /\ \A k \in Keys : \A d \in Puts(k, 1) : AtRest(d)
       /\ AtRest(clear(Self))

\* the same in a build with overflow checks, where the pass that takes
\* more off total_count than it holds aborts
C21_AtRestWithOverflowChecks == overflow_checks => C21_TotalCountAtRest

\* the cache as constructed with capacity cap
Constructed(cap) ==
  /\ capacity = cap
  /\ hash = NewCache(cap).hash
  /\ entries = NewCache(cap).entries
  /\ lru = NewCache(cap).lru
  /\ chains = NewCache(cap).chains
  /\ mid_boundary = NewCache(cap).mid_boundary
  /\ old_boundary = NewCache(cap).old_boundary
  /\ total_count = NewCache(cap).total_count
  /\ panicked = NewCache(cap).panicked

\* total_count has not wrapped
Unwrapped == total_count >= 0

Get(k) == ~panicked /\ Unwrapped /\ Becomes(get(Self, k))
Put(k, v) == ~panicked /\ Unwrapped /\ Becomes(put(Self, k, v))
PutPrio(k, v) == ~panicked /\ Unwrapped /\ Becomes(put_prio(Self, k, v))
Clear == ~panicked /\ Becomes(clear(Self))

\* a cache of the least capacity or of a capacity of the tests, in a build
\* with or without overflow checks, every call made with one value; the
\* cache of the smoke test with the first WarmKeys keys only
Init ==
  \E cap \in {MinCapacity, TestCapacity, SmokeCapacity}, checks \in BOOLEAN :
    /\ overflow_checks = checks
    /\ Constructed(cap)

CallKeys == IF capacity = SmokeCapacity THEN 1..WarmKeys ELSE Keys

Next ==
  \/ \E k \in CallKeys : Get(k)
  \/ \E k \in CallKeys : Put(k, 1)
  \/ \E k \in CallKeys : PutPrio(k, 1)
  \/ Clear

Spec == Init /\ [][Next]_vars

\* the cache of the least capacity in a build with overflow checks, the
\* calls made with all values
InitValues == overflow_checks = TRUE /\ Constructed(MinCapacity)

NextValues ==
  \/ \E k \in Keys : Get(k)
  \/ \E k \in Keys, v \in Values : Put(k, v)
  \/ \E k \in Keys, v \in Values : PutPrio(k, v)
  \/ Clear

SpecValues == InitValues /\ [][NextValues]_vars

====
